---- MODULE Spec2Model ----
(***************************************************************************)
(* The room chat servers of anywherechat.                                  *)
(*                                                                         *)
(* src/back/server.js holds two servers: the persistent variant (lines     *)
(* 1-401, rooms carry a durable members array and are addressed by id) and *)
(* the ephemeral variant (lines 403-767, rooms carry an owner, are         *)
(* addressed by name, membership is the socket room only).                 *)
(* src/server/src/socket.js is a third, basic socket layer that consults   *)
(* no room record at all.  A deployment runs one of them: variant is       *)
(* chosen in Init and never changes.                                       *)
(*                                                                         *)
(* Every await of a handler is a suspension point.  A handler that is      *)
(* suspended is a record of ops; one action is the effect of the awaited   *)
(* I/O together with the synchronous code that runs when it returns, up to *)
(* the next await.  The emit that follows newMessage.save() is a step of   *)
(* its own: the write takes effect in the database before its reply        *)
(* reaches the handler.                                                    *)
(***************************************************************************)
EXTENDS Integers, Sequences, FiniteSets, TLC

\* Client requests (socket events and REST requests) per behaviour.
MaxOps == 3

\* chatMessage / sendMessage events among them.
MaxPosts == 2

Variants == {"persistent", "ephemeral", "basic"}

\* The user directory (signup is outside the model): userId = username.
Users == {"amy", "bob"}

NoUser == "none"

\* The socket connections that are attempted.  s1 and s3 are two connections
\* of amy, s2 is bob's, s0 presents no valid token.
Sessions == {"s0", "s1", "s2", "s3"}

\* jwt.verify(socket.handshake.auth.token, JWT_SECRET): the identity the
\* token binds (socket.user), NoUser when verify throws.
UserOf(s) ==
    IF s = "s0" THEN NoUser ELSE IF s = "s2" THEN "bob" ELSE "amy"

\* The connections that send chatMessage events to the servers of
\* server.js; the other connections of the model only join and listen.
Posters == {"s1", "s2"}

Names == {"general"}

\* Message texts as word sequences; <<>> is the empty string.  Clients write
\* mentions the way their server reads them: @email for the persistent
\* variant, @username for the ephemeral one.
Texts(v) ==
    IF v = "persistent"
    THEN {<<>>, <<"hi">>, <<"hello", "@bob">>, <<"@bob@x.io", "@bob@x.io">>}
    ELSE IF v = "ephemeral" THEN {<<>>, <<"hi">>, <<"@bob", "@bob">>}
    ELSE {<<>>, <<"hi">>}

NoKey == "none"

NoRoom == [id |-> NoKey, name |-> NoKey, members |-> <<>>, owner |-> NoUser]

\* ObjectId of the n-th room record ever inserted.
IdOf(n) == "id" \o ToString(n)

Range(q) == {q[i] : i \in 1..Len(q)}

RECURSIVE Flatten(_)
Flatten(qq) == IF qq = <<>> THEN <<>> ELSE Head(qq) \o Flatten(Tail(qq))

\* message.match(/@([\w.-]+@[\w.-]+\.[A-Za-z]{2,})/g) on one word.
EmailMatches(word) ==
    IF word = "@bob@x.io" THEN <<"@bob@x.io">>
    ELSE IF word = "@amy@x.io" THEN <<"@amy@x.io">>
    ELSE <<>>

\* message.match(/@(\w+)/g) on one word: \w stops at '@' and at '.'.
UsernameMatches(word) ==
    IF word = "@bob@x.io" THEN <<"@bob", "@x">>
    ELSE IF word = "@amy@x.io" THEN <<"@amy", "@x">>
    ELSE IF word = "@bob" THEN <<"@bob">>
    ELSE IF word = "@amy" THEN <<"@amy">>
    ELSE <<>>

\* The matches of the variant's mentionRegex in the text, in text order,
\* repeated as often as they occur (match() with /g does not de-duplicate).
Mentions(v, text) ==
    IF v = "persistent"
    THEN Flatten([i \in 1..Len(text) |-> EmailMatches(text[i])])
    ELSE IF v = "ephemeral"
    THEN Flatten([i \in 1..Len(text) |-> UsernameMatches(text[i])])
    ELSE <<>>

\* mention.slice(1)
Slice1(mention) ==
    CASE mention = "@bob@x.io" -> "bob@x.io"
      [] mention = "@amy@x.io" -> "amy@x.io"
      [] mention = "@bob" -> "bob"
      [] mention = "@amy" -> "amy"
      [] OTHER -> "x"

EmailOf(u) == IF u = "bob" THEN "bob@x.io" ELSE "amy@x.io"

\* User.findOne({ email }) / User.findOne({ username }).
FindUser(v, k) ==
    IF v = "persistent"
    THEN IF \E u \in Users : EmailOf(u) = k
         THEN CHOOSE u \in Users : EmailOf(u) = k ELSE NoUser
    ELSE IF k \in Users THEN k ELSE NoUser

VARIABLES
    variant,    \* which server runs
    rooms,      \* the Room collection: a set of records
    nextId,     \* number of the next room record
    messages,   \* the Message collection, in insertion order
    live,       \* the connections that are open
    joined,     \* socket.io adapter: session -> set of socket rooms
    inbox,      \* session -> chatMessage events delivered to it, in order
    ack,        \* session -> last joinRoom callback payload it received
    mails,      \* transporter.sendMail calls that were delivered
    ops,        \* the handlers that suspend: request number -> record
    nops,       \* requests received so far
    nposts      \* chatMessage / sendMessage events received so far

vars == <<variant, rooms, nextId, messages, live, joined, inbox, ack, mails, ops, nops, nposts>>

\* Date.now() / new Date(): the clock never goes back.  Its reading is
\* counted in requests received, the one being handled included.
Now == nops + 1

NoAck == [key |-> NoKey, result |-> "none"]

Idle == [kind |-> "none", pc |-> "idle", sess |-> NoKey, user |-> NoUser,
         key |-> NoKey, text |-> <<>>, snap |-> NoRoom, idx |-> 0,
         outcome |-> "none", mailErr |-> FALSE, created |-> 0, got |-> <<>>]

\* A handler that returned (or whose promise settled): only what it was
\* asked and how it ended is kept.
Done(o, res) == [Idle EXCEPT !.kind = o.kind, !.pc = "done", !.sess = o.sess,
                             !.user = o.user, !.key = o.key, !.outcome = res,
                             !.mailErr = o.mailErr, !.got = o.got]

\* new Room({ name, members: [req.user.userId] }) / new Room({ name, owner }).
NewRoom(v, id, name, u) ==
    IF v = "persistent"
    THEN [id |-> id, name |-> name, members |-> <<u>>, owner |-> NoUser]
    ELSE [id |-> id, name |-> name, members |-> <<>>, owner |-> u]

\* Room.findById(key) in the persistent variant, Room.findOne({ name: key })
\* in the ephemeral one; NoRoom stands for null.
FindRoom(v, rs, k) ==
    IF v = "persistent"
    THEN IF \E r \in rs : r.id = k THEN CHOOSE r \in rs : r.id = k ELSE NoRoom
    ELSE IF \E r \in rs : r.name = k THEN CHOOSE r \in rs : r.name = k ELSE NoRoom

\* room.members.includes(userId)
Includes(room, u) == u \in Range(room.members)

\* What a client can name as a room: ids the server handed out, or names.
Keys == IF variant = "persistent" THEN {IdOf(n) : n \in 1..(nextId - 1)} ELSE Names

\* io.use(...), server.js 282-295 and 663-676: a connection whose token
\* does not verify gets next(new Error('Authentication error')) and never
\* reaches io.on('connection').  socket.js registers no middleware.
Admitted(v, s) == v = "basic" \/ UserOf(s) # NoUser

\* The server has just started and the connections have been attempted:
\* the admitted ones are open, none has joined anything, no handler runs.
\* The database outlives the server: it is empty, or holds the room
\* "general" that amy created in an earlier run.
Init ==
    /\ variant \in Variants
    /\ \/ rooms = {} /\ nextId = 1
       \/ /\ variant # "basic"
          /\ rooms = {NewRoom(variant, IdOf(1), "general", "amy")}
          /\ nextId = 2
    /\ messages = <<>>
    /\ live = {s \in Sessions : Admitted(variant, s)}
    /\ joined = [s \in Sessions |-> {}]
    /\ inbox = [s \in Sessions |-> <<>>]
    /\ ack = [s \in Sessions |-> NoAck]
    /\ mails = <<>>
    /\ ops = [h \in 1..MaxOps |-> Idle]
    /\ nops = 0
    /\ nposts = 0

----
\* socket.on('joinRoom')

\* A faulty JoinRoomPersistent: socket.join runs before the checks.
JoinRoomPersistentJoinsFirst(s, k) ==
    /\ variant = "persistent"
    /\ s \in live
    /\ nops < MaxOps
    /\ k \in Keys
    /\ \E dbOk \in BOOLEAN :
         LET room == FindRoom(variant, rooms, k)
             res == IF ~dbOk THEN "Failed to join room"
                    ELSE IF room = NoRoom THEN "Room not found"
                    ELSE IF ~Includes(room, UserOf(s))
                    THEN "You are not a member of this room"
                    ELSE "success"
         IN /\ ack' = [ack EXCEPT ![s] = [key |-> k, result |-> res]]
            /\ joined' = [joined EXCEPT ![s] = @ \cup {k}]
    /\ nops' = nops + 1
    /\ UNCHANGED <<variant, live, rooms, nextId, messages, inbox, mails, ops, nposts>>

\* server.js 304-322: lookup, membership check, socket.join, callback.
JoinRoomPersistent(s, k) ==
    /\ variant = "persistent"
    /\ s \in live
    /\ nops < MaxOps
    /\ k \in Keys
    /\ \E dbOk \in BOOLEAN :
         LET room == FindRoom(variant, rooms, k)
             res == IF ~dbOk THEN "Failed to join room"
                    ELSE IF room = NoRoom THEN "Room not found"
                    ELSE IF ~Includes(room, UserOf(s))
                    THEN "You are not a member of this room"
                    ELSE "success"
         IN /\ ack' = [ack EXCEPT ![s] = [key |-> k, result |-> res]]
            /\ joined' = IF res = "success"
                         THEN [joined EXCEPT ![s] = @ \cup {k}] ELSE joined
    /\ nops' = nops + 1
    /\ UNCHANGED <<variant, live, rooms, nextId, messages, inbox, mails, ops, nposts>>

\* server.js 685-692: socket.join and a success callback, no lookup.
JoinRoomEphemeral(s, k) ==
    /\ variant = "ephemeral"
    /\ s \in live
    /\ nops < MaxOps
    /\ k \in Keys
    /\ joined' = [joined EXCEPT ![s] = @ \cup {k}]
    /\ ack' = [ack EXCEPT ![s] = [key |-> k, result |-> "success"]]
    /\ nops' = nops + 1
    /\ UNCHANGED <<variant, live, rooms, nextId, messages, inbox, mails, ops, nposts>>

\* socket.js 9-12: socket.join, no callback.
JoinRoomBasic(s, k) ==
    /\ variant = "basic"
    /\ s \in live
    /\ nops < MaxOps
    /\ k \in Keys
    /\ joined' = [joined EXCEPT ![s] = @ \cup {k}]
    /\ nops' = nops + 1
    /\ UNCHANGED <<variant, live, rooms, nextId, messages, inbox, ack, mails, ops, nposts>>

----
\* socket.on('disconnect')

\* A faulty Disconnect: the adapter keeps the socket in its rooms.
DisconnectKeepsRooms(s) ==
    /\ s \in live
    /\ nops < MaxOps
    /\ live' = live \ {s}
    /\ nops' = nops + 1
    /\ UNCHANGED <<variant, rooms, nextId, messages, joined, inbox, ack, mails, ops, nposts>>

\* The connection closes.  socket.io takes the socket out of every room
\* before it fires 'disconnect'; the handlers (server.js 390-392, 759-761,
\* socket.js 35-37) only log.  Nothing touches the handlers of the
\* connection that are suspended.  A closed socket fires no second
\* 'disconnect'.
Disconnect(s) ==
    /\ s \in live
    /\ nops < MaxOps
    /\ live' = live \ {s}
    /\ joined' = [joined EXCEPT ![s] = {}]
    /\ nops' = nops + 1
    /\ UNCHANGED <<variant, rooms, nextId, messages, inbox, ack, mails, ops, nposts>>

----
\* socket.on('chatMessage'), server.js 325-388 and 695-757

\* The record a message is saved as, and the payload that is emitted for it.
MessageOf(h, o) == [op |-> h, room |-> o.snap.id, user |-> o.user,
                    text |-> o.text, createdAt |-> o.created]

PayloadOf(h, o) == [op |-> h, user |-> o.user, text |-> o.text,
                    createdAt |-> o.created]

\* A faulty Authorized: the membership check is left out.
AuthorizedAlways(room, u) == TRUE

\* if (!room.members.includes(socket.user.userId)) return; the ephemeral
\* handler has no such check.
Authorized(room, u) == variant = "persistent" => Includes(room, u)

\* A faulty Caught: the emit sits after the try/catch, not in the try.
CaughtThenEmits(o, res) == [o EXCEPT !.pc = "emit"]

\* catch (err) { console.error('Error sending message:', err); }
Caught(o, res) == Done(o, res)

\* The event arrives; Room.findById / Room.findOne returns; the handler
\* returns early or builds newMessage and calls save().
ChatFind(s, k, t) ==
    /\ variant \in {"persistent", "ephemeral"}
    /\ s \in live
    /\ nops < MaxOps
    /\ nposts < MaxPosts
    /\ k \in Keys
    /\ \E dbOk \in BOOLEAN :
         LET h == nops + 1
             room == FindRoom(variant, rooms, k)
             o == [Idle EXCEPT !.kind = "chat", !.sess = s, !.user = UserOf(s),
                               !.key = k, !.text = t, !.created = Now]
         IN ops' = [ops EXCEPT ![h] =
                IF ~dbOk THEN Caught(o, "error")
                ELSE IF room = NoRoom THEN Done(o, "no-room")
                ELSE IF ~Authorized(room, o.user) THEN Done(o, "not-member")
                ELSE [o EXCEPT !.pc = "save", !.snap = room]]
    /\ nops' = nops + 1
    /\ nposts' = nposts + 1
    /\ UNCHANGED <<variant, live, rooms, nextId, messages, joined, inbox, ack, mails>>

\* Where the handler stands once save() has resolved.
AfterSave(o) ==
    IF Mentions(variant, o.text) = <<>>
    THEN [o EXCEPT !.pc = "emit"]
    ELSE [o EXCEPT !.pc = "lookup", !.idx = 1]

\* A faulty Valid: the schema does not require the text.
ValidAlways(text) == TRUE

\* text: { type: String, required: true } (content in socket.js's model):
\* the required validator of a String rejects undefined and ''.
Valid(text) == text # <<>>

\* A faulty Insert: the new document is put in front of the collection.
InsertAtHead(log, m) == <<m>> \o log

\* The insert of save(): the document goes behind those already stored.
Insert(log, m) == Append(log, m)

\* A faulty ChatSave: one lock for all rooms, held from the save of a
\* message to its emit.
ChatSaveSerialized(h) ==
    /\ variant \in {"persistent", "ephemeral"}
    /\ ops[h].kind = "chat"
    /\ ops[h].pc = "save"
    /\ \A g \in 1..MaxOps \ {h} : ops[g].pc \notin {"lookup", "send", "emit"}
    /\ \E dbOk \in BOOLEAN :
         IF ~Valid(ops[h].text) \/ ~dbOk
         THEN /\ ops' = [ops EXCEPT ![h] =
                     Caught(@, IF Valid(@.text) THEN "save-failed" ELSE "invalid")]
              /\ UNCHANGED messages
         ELSE /\ messages' = Insert(messages, MessageOf(h, ops[h]))
              /\ ops' = [ops EXCEPT ![h] = AfterSave(@)]
    /\ UNCHANGED <<variant, live, rooms, nextId, joined, inbox, ack, mails, nops, nposts>>

\* newMessage.save(): validation, then the write, which can fail itself.
\* A failure lands in the outer catch, which only logs.
ChatSave(h) ==
    /\ variant \in {"persistent", "ephemeral"}
    /\ ops[h].kind = "chat"
    /\ ops[h].pc = "save"
    /\ \E dbOk \in BOOLEAN :
         IF ~Valid(ops[h].text) \/ ~dbOk
         THEN /\ ops' = [ops EXCEPT ![h] =
                     Caught(@, IF Valid(@.text) THEN "save-failed" ELSE "invalid")]
              /\ UNCHANGED messages
         ELSE /\ messages' = Insert(messages, MessageOf(h, ops[h]))
              /\ ops' = [ops EXCEPT ![h] = AfterSave(@)]
    /\ UNCHANGED <<variant, live, rooms, nextId, joined, inbox, ack, mails, nops, nposts>>

\* The end of one round of the for loop over mentions.
NextMention(o) ==
    IF o.idx < Len(Mentions(variant, o.text))
    THEN [o EXCEPT !.pc = "lookup", !.idx = @ + 1]
    ELSE [o EXCEPT !.pc = "emit"]

\* Whether the handler mails the user a mention resolved to.
ShouldNotify(o, u) ==
    /\ u # NoUser
    /\ variant = "persistent" => ~Includes(o.snap, u)

\* await User.findOne(...) for the current mention; a throw leaves the
\* loop for the outer catch, past the emit.
ChatLookup(h) ==
    /\ ops[h].kind = "chat"
    /\ ops[h].pc = "lookup"
    /\ \E dbOk \in BOOLEAN :
         LET o == ops[h]
             u == FindUser(variant, Slice1(Mentions(variant, o.text)[o.idx]))
         IN ops' = [ops EXCEPT ![h] =
                IF ~dbOk THEN Caught(o, "lookup-failed")
                ELSE IF ShouldNotify(o, u) THEN [o EXCEPT !.pc = "send"]
                ELSE NextMention(o)]
    /\ UNCHANGED <<variant, live, rooms, nextId, messages, joined, inbox, ack, mails, nops, nposts>>

\* A faulty MailFailed: no try/catch around sendMail, the error reaches
\* the outer catch.
MailFailedPropagates(o) == Done([o EXCEPT !.mailErr = TRUE], "mail-failed")

\* catch (emailErr) { console.error(...) }: the loop goes on.
MailFailed(o) == NextMention([o EXCEPT !.mailErr = TRUE])

\* await transporter.sendMail(...) inside its own try/catch.  A send that
\* never settles is this action never taken.
ChatSendMail(h) ==
    /\ ops[h].kind = "chat"
    /\ ops[h].pc = "send"
    /\ \E sent \in BOOLEAN :
         LET o == ops[h]
             u == FindUser(variant, Slice1(Mentions(variant, o.text)[o.idx]))
         IN IF sent
            THEN /\ mails' = Append(mails, [op |-> h, to |-> EmailOf(u)])
                 /\ ops' = [ops EXCEPT ![h] = NextMention(o)]
            ELSE /\ UNCHANGED mails
                 /\ ops' = [ops EXCEPT ![h] = MailFailed(o)]
    /\ UNCHANGED <<variant, live, rooms, nextId, messages, joined, inbox, ack, nops, nposts>>

\* A faulty Emit: io.emit(event, payload), to every open connection.
EmitToAll(k, payload) ==
    [s \in Sessions |-> IF s \in live THEN Append(inbox[s], payload) ELSE inbox[s]]

\* io.to(room).emit(event, payload): every socket in the room gets it once.
Emit(k, payload) ==
    [s \in Sessions |-> IF k \in joined[s] THEN Append(inbox[s], payload) ELSE inbox[s]]

\* A faulty ChatEmit: the handler emits only while its socket is connected.
ChatEmitIfOpen(h) ==
    /\ ops[h].sess \in live
    /\ variant \in {"persistent", "ephemeral"}
    /\ ops[h].kind = "chat"
    /\ ops[h].pc = "emit"
    /\ inbox' = Emit(ops[h].key, PayloadOf(h, ops[h]))
    /\ ops' = [ops EXCEPT ![h] = Done(@, "sent")]
    /\ UNCHANGED <<variant, live, rooms, nextId, messages, joined, ack, mails, nops, nposts>>

\* io.to(roomId).emit('chatMessage', ...), the last statement of the try.
ChatEmit(h) ==
    /\ variant \in {"persistent", "ephemeral"}
    /\ ops[h].kind = "chat"
    /\ ops[h].pc = "emit"
    /\ inbox' = Emit(ops[h].key, PayloadOf(h, ops[h]))
    /\ ops' = [ops EXCEPT ![h] = Done(@, "sent")]
    /\ UNCHANGED <<variant, live, rooms, nextId, messages, joined, ack, mails, nops, nposts>>

----
\* socket.on('sendMessage'), socket.js 15-31: no lookup, no try/catch; the
\* sender is the userId of the payload.

SendMessage(s, k, u, t) ==
    /\ variant = "basic"
    /\ s \in live
    /\ nops < MaxOps
    /\ nposts < MaxPosts
    /\ k \in Keys
    /\ ops' = [ops EXCEPT ![nops + 1] =
           [Idle EXCEPT !.kind = "chat", !.pc = "save", !.sess = s, !.user = u,
                        !.key = k, !.text = t, !.created = Now,
                        !.snap = [NoRoom EXCEPT !.id = k]]]
    /\ nops' = nops + 1
    /\ nposts' = nposts + 1
    /\ UNCHANGED <<variant, live, rooms, nextId, messages, joined, inbox, ack, mails>>

\* await newMessage.save(): content is required; a rejection ends the
\* handler (nothing catches it), the emit is not reached.
SendSave(h) ==
    /\ variant = "basic"
    /\ ops[h].kind = "chat"
    /\ ops[h].pc = "save"
    /\ \E dbOk \in BOOLEAN :
         IF ~Valid(ops[h].text) \/ ~dbOk
         THEN /\ ops' = [ops EXCEPT ![h] =
                     Done(@, IF Valid(@.text) THEN "save-failed" ELSE "invalid")]
              /\ UNCHANGED messages
         ELSE /\ messages' = Insert(messages, MessageOf(h, ops[h]))
              /\ ops' = [ops EXCEPT ![h].pc = "emit"]
    /\ UNCHANGED <<variant, live, rooms, nextId, joined, inbox, ack, mails, nops, nposts>>

\* io.to(roomId).emit('newMessage', ...)
SendEmit(h) ==
    /\ variant = "basic"
    /\ ops[h].kind = "chat"
    /\ ops[h].pc = "emit"
    /\ inbox' = Emit(ops[h].key, PayloadOf(h, ops[h]))
    /\ ops' = [ops EXCEPT ![h] = Done(@, "sent")]
    /\ UNCHANGED <<variant, live, rooms, nextId, messages, joined, ack, mails, nops, nposts>>

----
\* REST routes of server.js; u is req.user.userId, set by authMiddleware.

\* POST /rooms up to newRoom.save(): 187-200 and 583-596.
CreateFind(u, n) ==
    /\ variant \in {"persistent", "ephemeral"}
    /\ nops < MaxOps
    /\ LET o == [Idle EXCEPT !.kind = "create", !.user = u, !.key = n]
       IN ops' = [ops EXCEPT ![nops + 1] =
              IF \E r \in rooms : r.name = n
              THEN Done(o, "Room name already exists")
              ELSE [o EXCEPT !.pc = "save"]]
    /\ nops' = nops + 1
    /\ UNCHANGED <<variant, live, rooms, nextId, messages, joined, inbox, ack, mails, nposts>>

\* newRoom.save(): name is a unique index (roomSchema), so the insert of a
\* second record of the name is refused and the catch answers 500.
CreateSave(h) ==
    /\ ops[h].kind = "create"
    /\ ops[h].pc = "save"
    /\ IF \E r \in rooms : r.name = ops[h].key
       THEN /\ ops' = [ops EXCEPT ![h] = Done(@, "Server error")]
            /\ UNCHANGED <<rooms, nextId>>
       ELSE /\ rooms' = rooms \cup
                   {NewRoom(variant, IdOf(nextId), ops[h].key, ops[h].user)}
            /\ nextId' = nextId + 1
            /\ ops' = [ops EXCEPT ![h] = Done(@, "Room created")]
    /\ UNCHANGED <<variant, live, messages, joined, inbox, ack, mails, nops, nposts>>

\* POST /rooms/:roomId/join up to room.save(): 210-225.
RestJoinFind(u, k) ==
    /\ variant = "persistent"
    /\ nops < MaxOps
    /\ k \in Keys
    /\ LET o == [Idle EXCEPT !.kind = "join", !.user = u, !.key = k]
           room == FindRoom(variant, rooms, k)
       IN ops' = [ops EXCEPT ![nops + 1] =
              IF room = NoRoom THEN Done(o, "Room not found")
              ELSE IF Includes(room, u) THEN Done(o, "Already in the room")
              ELSE [o EXCEPT !.pc = "save", !.snap = room]]
    /\ nops' = nops + 1
    /\ UNCHANGED <<variant, live, rooms, nextId, messages, joined, inbox, ack, mails, nposts>>

\* room.save() after members.push: a $push on the stored record; a record
\* that is gone makes save() throw.
RestJoinSave(h) ==
    /\ ops[h].kind = "join"
    /\ ops[h].pc = "save"
    /\ LET room == FindRoom(variant, rooms, ops[h].key)
       IN IF room = NoRoom
          THEN /\ ops' = [ops EXCEPT ![h] = Done(@, "Server error")]
               /\ UNCHANGED rooms
          ELSE /\ rooms' = (rooms \ {room}) \cup
                      {[room EXCEPT !.members = Append(@, ops[h].user)]}
               /\ ops' = [ops EXCEPT ![h] = Done(@, "Joined room successfully")]
    /\ UNCHANGED <<variant, live, nextId, messages, joined, inbox, ack, mails, nops, nposts>>

\* May this user delete the room: a member (245), the owner (625).
MayDelete(room, u) ==
    IF variant = "persistent" THEN Includes(room, u) ELSE room.owner = u

\* DELETE /rooms/:key up to Room.findByIdAndDelete: 235-249 and 617-629.
DeleteFind(u, k) ==
    /\ variant \in {"persistent", "ephemeral"}
    /\ nops < MaxOps
    /\ k \in Keys
    /\ LET o == [Idle EXCEPT !.kind = "delete", !.user = u, !.key = k]
           room == FindRoom(variant, rooms, k)
       IN ops' = [ops EXCEPT ![nops + 1] =
              IF room = NoRoom THEN Done(o, "Room not found")
              ELSE IF ~MayDelete(room, u) THEN Done(o, "Forbidden")
              ELSE [o EXCEPT !.pc = "delete", !.snap = room]]
    /\ nops' = nops + 1
    /\ UNCHANGED <<variant, live, rooms, nextId, messages, joined, inbox, ack, mails, nposts>>

\* A faulty DeleteRoom: the delete cascades to the messages of the room.
DeleteRoomPurges(h) ==
    /\ ops[h].kind = "delete"
    /\ ops[h].pc = "delete"
    /\ rooms' = {r \in rooms : r.id # ops[h].snap.id}
    /\ messages' = SelectSeq(messages, LAMBDA m : m.room # ops[h].snap.id)
    /\ ops' = [ops EXCEPT ![h] = Done(@, "Room deleted")]
    /\ UNCHANGED <<variant, live, nextId, joined, inbox, ack, mails, nops, nposts>>

\* Room.findByIdAndDelete(id): removes the record if it is still there;
\* the messages of the room are not touched.
DeleteRoom(h) ==
    /\ ops[h].kind = "delete"
    /\ ops[h].pc = "delete"
    /\ rooms' = {r \in rooms : r.id # ops[h].snap.id}
    /\ ops' = [ops EXCEPT ![h] = Done(@, "Room deleted")]
    /\ UNCHANGED <<variant, live, nextId, messages, joined, inbox, ack, mails, nops, nposts>>

----
\* GET /rooms/:key/messages, server.js 258-277 and 638-658

\* A faulty MayRead: the history route checks no membership.
MayReadAlways(room, u) == TRUE

\* if (!room.members.includes(req.user.userId)) return res.status(403);
\* the ephemeral route has the check left out ("We do NOT check membership
\* here").
MayRead(room, u) == variant = "persistent" => Includes(room, u)

\* The request up to Message.find: room lookup, 404, 403.
HistoryFind(u, k) ==
    /\ variant \in {"persistent", "ephemeral"}
    /\ nops < MaxOps
    /\ k \in Keys
    /\ LET o == [Idle EXCEPT !.kind = "history", !.user = u, !.key = k]
           room == FindRoom(variant, rooms, k)
       IN ops' = [ops EXCEPT ![nops + 1] =
              IF room = NoRoom THEN Done(o, "Room not found")
              ELSE IF ~MayRead(room, u)
              THEN Done(o, "You are not a member of this room")
              ELSE [o EXCEPT !.pc = "find", !.snap = room]]
    /\ nops' = nops + 1
    /\ UNCHANGED <<variant, live, rooms, nextId, messages, joined, inbox, ack, mails, nposts>>

\* Message.find({ room: id }) returns and the route answers 200 with it.
HistoryRead(h) ==
    /\ ops[h].kind = "history"
    /\ ops[h].pc = "find"
    /\ ops' = [ops EXCEPT ![h] =
           Done([@ EXCEPT !.got = SelectSeq(messages,
                                            LAMBDA m : m.room = ops[h].snap.id)],
                "Messages")]
    /\ UNCHANGED <<variant, live, rooms, nextId, messages, joined, inbox, ack, mails, nops, nposts>>

----
Next ==
    \/ \E s \in Sessions, k \in Keys : JoinRoomPersistent(s, k)
    \/ \E s \in Sessions, k \in Keys : JoinRoomEphemeral(s, k)
    \/ \E s \in Sessions, k \in Keys : JoinRoomBasic(s, k)
    \/ \E s \in Sessions : Disconnect(s)
    \/ \E s \in Posters, k \in Keys, t \in Texts(variant) : ChatFind(s, k, t)
    \/ \E h \in 1..MaxOps : ChatSave(h)
    \/ \E h \in 1..MaxOps : ChatLookup(h)
    \/ \E h \in 1..MaxOps : ChatSendMail(h)
    \/ \E h \in 1..MaxOps : ChatEmit(h)
    \/ \E s \in Sessions, k \in Keys, u \in Users, t \in Texts(variant) : SendMessage(s, k, u, t)
    \/ \E h \in 1..MaxOps : SendSave(h)
    \/ \E h \in 1..MaxOps : SendEmit(h)
    \/ \E u \in Users, n \in Names : CreateFind(u, n)
    \/ \E h \in 1..MaxOps : CreateSave(h)
    \/ \E u \in Users, k \in Keys : RestJoinFind(u, k)
    \/ \E h \in 1..MaxOps : RestJoinSave(h)
    \/ \E u \in Users, k \in Keys : DeleteFind(u, k)
    \/ \E h \in 1..MaxOps : DeleteRoom(h)
    \/ \E u \in Users, k \in Keys : HistoryFind(u, k)
    \/ \E h \in 1..MaxOps : HistoryRead(h)

Spec == Init /\ [][Next]_vars

----
\* The persistent server over a database that holds two rooms of amy's,
\* "general" and "random", from an earlier run.
InitTwoRooms ==
    /\ variant = "persistent"
    /\ rooms = {NewRoom(variant, IdOf(1), "general", "amy"),
                NewRoom(variant, IdOf(2), "random", "amy")}
    /\ nextId = 3
    /\ messages = <<>>
    /\ live = {s \in Sessions : Admitted(variant, s)}
    /\ joined = [s \in Sessions |-> {}]
    /\ inbox = [s \in Sessions |-> <<>>]
    /\ ack = [s \in Sessions |-> NoAck]
    /\ mails = <<>>
    /\ ops = [h \in 1..MaxOps |-> Idle]
    /\ nops = 0
    /\ nposts = 0

\* The handlers and routes of the persistent server (server.js 1-401).
NextPersistent ==
    \/ \E s \in Sessions, k \in Keys : JoinRoomPersistent(s, k)
    \/ \E s \in Sessions : Disconnect(s)
    \/ \E s \in Posters, k \in Keys, t \in Texts(variant) : ChatFind(s, k, t)
    \/ \E h \in 1..MaxOps : ChatSave(h)
    \/ \E h \in 1..MaxOps : ChatLookup(h)
    \/ \E h \in 1..MaxOps : ChatSendMail(h)
    \/ \E h \in 1..MaxOps : ChatEmit(h)
    \/ \E u \in Users, n \in Names : CreateFind(u, n)
    \/ \E h \in 1..MaxOps : CreateSave(h)
    \/ \E u \in Users, k \in Keys : RestJoinFind(u, k)
    \/ \E h \in 1..MaxOps : RestJoinSave(h)
    \/ \E u \in Users, k \in Keys : DeleteFind(u, k)
    \/ \E h \in 1..MaxOps : DeleteRoom(h)
    \/ \E u \in Users, k \in Keys : HistoryFind(u, k)
    \/ \E h \in 1..MaxOps : HistoryRead(h)

SpecTwoRooms == InitTwoRooms /\ [][NextPersistent]_vars

----
\* The ephemeral server at work: the room "general" of amy's exists and
\* bob's connection s2 has joined it (a joinRoom answered "success").
\* Requests are counted from here.
InitJoined ==
    /\ variant = "ephemeral"
    /\ rooms = {NewRoom(variant, IdOf(1), "general", "amy")}
    /\ nextId = 2
    /\ messages = <<>>
    /\ live = {s \in Sessions : Admitted(variant, s)}
    /\ joined = [s \in Sessions |-> IF s = "s2" THEN {"general"} ELSE {}]
    /\ inbox = [s \in Sessions |-> <<>>]
    /\ ack = [s \in Sessions |->
                 IF s = "s2" THEN [key |-> "general", result |-> "success"]
                 ELSE NoAck]
    /\ mails = <<>>
    /\ ops = [h \in 1..MaxOps |-> Idle]
    /\ nops = 0
    /\ nposts = 0

\* The handlers and routes of the ephemeral server (server.js 403-767).
NextEphemeral ==
    \/ \E s \in Sessions, k \in Keys : JoinRoomEphemeral(s, k)
    \/ \E s \in Sessions : Disconnect(s)
    \/ \E s \in Posters, k \in Keys, t \in Texts(variant) : ChatFind(s, k, t)
    \/ \E h \in 1..MaxOps : ChatSave(h)
    \/ \E h \in 1..MaxOps : ChatLookup(h)
    \/ \E h \in 1..MaxOps : ChatSendMail(h)
    \/ \E h \in 1..MaxOps : ChatEmit(h)
    \/ \E u \in Users, n \in Names : CreateFind(u, n)
    \/ \E h \in 1..MaxOps : CreateSave(h)
    \/ \E u \in Users, k \in Keys : DeleteFind(u, k)
    \/ \E h \in 1..MaxOps : DeleteRoom(h)
    \/ \E u \in Users, k \in Keys : HistoryFind(u, k)
    \/ \E h \in 1..MaxOps : HistoryRead(h)

SpecJoined == InitJoined /\ [][NextEphemeral]_vars

----
\* Vocabulary of the properties.

ChatOps == {h \in 1..MaxOps : ops[h].kind = "chat"}

\* Positions of the log / of an inbox that carry the message of handler h.
LogPos(h) == {i \in 1..Len(messages) : messages[i].op = h}

InboxPos(s, h) == {i \in 1..Len(inbox[s]) : inbox[s][i].op = h}

MailsOf(h) == {i \in 1..Len(mails) : mails[i].op = h}

\* The room a logged message was appended for.
RoomOfOp(h) == messages[CHOOSE i \in LogPos(h) : TRUE].room

\* A step appended this record to the log.
Appended(m) == messages' = Append(messages, m)

----
\* C1: within one room every session sees the broadcasts in the order in
\* which the messages were appended to the log: of two chatMessage events
\* of the same room in a session's inbox, the one received first was
\* appended first.
C1_BroadcastOrderIsAppendOrder ==
    \A s \in Sessions : \A i, j \in 1..Len(inbox[s]) :
        LET a == inbox[s][i].op
            b == inbox[s][j].op
        IN (i < j /\ RoomOfOp(a) = RoomOfOp(b)) =>
               \A x \in LogPos(a), y \in LogPos(b) : x < y

\* C2: the existence check of a post and its append are one unit: whenever
\* a message is appended by a server that checks the room, the record of
\* its room is in the Room collection at that moment.
C2_AppendOnlyToExistingRoom ==
    [][\A h \in ChatOps :
          (variant # "basic" /\ Appended(MessageOf(h, ops[h]))) =>
              \E r \in rooms : r.id = ops[h].snap.id]_vars

\* The room record k exists and does not list the user of session s.
NonMember(s, k) ==
    /\ variant = "persistent"
    /\ \E r \in rooms : r.id = k /\ ~Includes(r, UserOf(s))

\* A chatMessage of session s for room k arrives in this step as request h.
ChatArrives(h, s, k) ==
    /\ ops[h].kind = "none"
    /\ ops'[h].kind = "chat"
    /\ ops'[h].sess = s
    /\ ops'[h].key = k

\* C3: persistent variant.  A joinRoom of a user the room record does not
\* list is answered "You are not a member of this room" (or "Failed to join
\* room" when the lookup itself throws) and joins nothing; a chatMessage of
\* such a user ends at the check, and nothing is ever appended, broadcast
\* or mailed for it; no step appends a message of a user the room does not
\* list.
C3_NonMemberRejected ==
    /\ [][\A s \in Sessions, k \in Keys : NonMember(s, k) =>
            /\ k \in joined'[s] => k \in joined[s]
            /\ (ack'[s] # ack[s] /\ ack'[s].key = k) =>
                   ack'[s].result \in {"You are not a member of this room",
                                       "Failed to join room"}
            /\ \A h \in 1..MaxOps : ChatArrives(h, s, k) =>
                   /\ ops'[h].pc = "done"
                   /\ ops'[h].outcome \in {"not-member", "error"}
            /\ \A h \in ChatOps :
                   (ops[h].user = UserOf(s) /\ ops[h].key = k) =>
                       ~Appended(MessageOf(h, ops[h]))]_vars
    /\ [](\A h \in ChatOps : ops[h].outcome = "not-member" =>
            LogPos(h) = {} /\ MailsOf(h) = {} /\
            \A s \in Sessions : InboxPos(s, h) = {})

\* C3 witness: bob's session was refused the join and bob's post was
\* dropped at the membership check.
C3_Witness ==
    /\ variant = "persistent"
    /\ ack["s2"].result = "You are not a member of this room"
    /\ \E h \in ChatOps : ops[h].sess = "s2" /\ ops[h].outcome = "not-member"

\* C4: the broadcast of an appended message does not wait for the mention
\* side effect: while the handler is in a directory lookup or a mail send
\* for the message, the emit of that message can be taken.
C4_BroadcastDetachedFromNotification ==
    \A h \in ChatOps :
        ops[h].pc \in {"lookup", "send"} => ENABLED ChatEmit(h)

\* C5: for one message, no address is mailed twice.
C5_OneNotificationPerIdentity ==
    \A i, j \in 1..Len(mails) :
        (mails[i].op = mails[j].op /\ mails[i].to = mails[j].to) => i = j

\* Is u a member of the room handler o posts to, at this moment: listed in
\* the stored record (persistent), present with a joined session
\* (ephemeral).
IsMember(o, u) ==
    IF variant = "persistent"
    THEN \E r \in rooms : r.id = o.snap.id /\ Includes(r, u)
    ELSE \E s \in Sessions : UserOf(s) = u /\ o.key \in joined[s]

\* C6: the handler decides to notify only users who are not members of the
\* room at the time of the check.
C6_NotifyOnlyNonMembers ==
    [][\A h \in ChatOps :
          (ops[h].pc = "lookup" /\ ops'[h].pc = "send") =>
              ~IsMember(ops[h],
                        FindUser(variant,
                                 Slice1(Mentions(variant, ops[h].text)[ops[h].idx])))]_vars

CreateOps == {h \in 1..MaxOps : ops[h].kind = "create"}

\* C7: room names stay unique, and a creation request that does not create
\* its room is answered with the name-taken error.
C7_CreateRaceNameTaken ==
    /\ \A r1, r2 \in rooms : r1.name = r2.name => r1 = r2
    /\ \A h \in CreateOps : ops[h].pc = "done" =>
           ops[h].outcome \in {"Room created", "Room name already exists"}

\* C8: every event in an inbox is the broadcast of a record that is in the
\* log, with the same author and text, and a post whose save failed is in
\* no inbox.
C8_NoBroadcastWithoutAppend ==
    /\ \A s \in Sessions : \A i \in 1..Len(inbox[s]) :
           \E j \in LogPos(inbox[s][i].op) :
               /\ messages[j].user = inbox[s][i].user
               /\ messages[j].text = inbox[s][i].text
    /\ \A h \in ChatOps : ops[h].outcome \in {"save-failed", "invalid"} =>
           LogPos(h) = {} /\ \A s \in Sessions : InboxPos(s, h) = {}

\* C8 witness: one post failed at the save while another one was appended
\* and delivered to a joined session.
C8_Witness ==
    /\ \E h \in ChatOps : ops[h].outcome = "save-failed"
    /\ \E s \in Sessions : inbox[s] # <<>>

\* The connection was sent a payload that names a failure.
ToldOfFailure(s) == ack[s].result \notin {"none", "success"}

\* C9: a post that was not accepted is reported to the posting connection.
C9_RejectedPostIsReported ==
    \A h \in ChatOps :
        ops[h].outcome \in {"no-room", "not-member", "save-failed", "invalid"} =>
            ToldOfFailure(ops[h].sess)

\* A step in which the mail send of handler h fails.
SendFails(h) ==
    /\ ops[h].pc = "send"
    /\ ops'[h] # ops[h]
    /\ mails' = mails

\* C10: a failed mail send only moves the handler on to the next mention,
\* or to the emit after the last one; the step tells the posting session
\* nothing, and a handler that had a send fail never ends in the catch of
\* the save.
C10_MailFailureIsolated ==
    /\ [][\A h \in ChatOps : SendFails(h) =>
            /\ ops'[h] = NextMention([ops[h] EXCEPT !.mailErr = TRUE])
            /\ ops'[h].pc \in {"lookup", "emit"}
            /\ ack' = ack /\ inbox' = inbox]_vars
    /\ [](\A h \in ChatOps : ops[h].mailErr =>
            /\ ops[h].pc \in {"lookup", "send", "emit", "done"}
            /\ ops[h].pc = "done" => ops[h].outcome \in {"sent", "lookup-failed"})

\* C10 witness: a send of the message failed, another mention of the same
\* message was mailed, and the message reached a joined session.
C10_Witness ==
    \E h \in ChatOps :
        /\ ops[h].mailErr
        /\ MailsOf(h) # {}
        /\ ops[h].outcome = "sent"
        /\ \E s \in Sessions : InboxPos(s, h) # {}

\* C11: a message that was appended is broadcast whatever the mention side
\* effect does: a chatMessage handler that has ended with its message in
\* the log has ended by emitting it.
C11_AppendedIsBroadcast ==
    \A h \in ChatOps :
        (ops[h].pc = "done" /\ LogPos(h) # {}) => ops[h].outcome = "sent"

\* C12: a post that names a room without a record ends as room-not-found
\* and is taken no further: in the step in which a chatMessage arrives for
\* a room key no record answers to, the handler ends.
C12_PostToMissingRoomFails ==
    [][\A h \in 1..MaxOps : \A s \in Sessions, k \in Keys :
          (ChatArrives(h, s, k) /\ FindRoom(variant, rooms, k) = NoRoom) =>
              /\ ops'[h].pc = "done"
              /\ ops'[h].outcome \in {"no-room", "error"}]_vars

\* The user who created the room: the first entry of members (persistent:
\* POST /rooms stores members: [creator], joins push behind it), the owner
\* field (ephemeral).
OwnerOf(room) ==
    IF variant = "persistent" THEN Head(room.members) ELSE room.owner

\* C13: only its owner deletes a room: a step removes a room record only
\* for a delete request of the user who created it.
C13_OnlyOwnerDeletes ==
    [][\A r \in rooms : (\A q \in rooms' : q.id # r.id) =>
          \E h \in 1..MaxOps :
              /\ ops[h].kind = "delete"
              /\ ops[h].pc = "delete"
              /\ ops'[h].pc = "done"
              /\ ops[h].user = OwnerOf(r)]_vars

\* Would a joinRoom of session s for room k succeed in this state (the
\* lookup not failing): the persistent handler wants the record and the
\* user in its members, the ephemeral handler wants nothing.
JoinWouldSucceed(s, k) ==
    variant = "persistent" =>
        \E r \in rooms : r.id = k /\ Includes(r, UserOf(s))

\* C16: the post makes the check the join makes: a chatMessage that
\* arrives (its lookup not failing) passes on to the save exactly when a
\* joinRoom of the same session for the same room would succeed in that
\* state.
C16_PostChecksAsJoin ==
    [][\A h \in 1..MaxOps : \A s \in Sessions, k \in Keys :
          (variant # "basic" /\ ChatArrives(h, s, k)
              /\ ops'[h].outcome # "error") =>
                  (ops'[h].pc = "save" <=> JoinWouldSucceed(s, k))]_vars

\* C20: within one room the creation times do not decrease along the log.
C20_CreatedAtMonotonicInLog ==
    \A i, j \in 1..Len(messages) :
        (i < j /\ messages[i].room = messages[j].room) =>
            messages[i].createdAt <= messages[j].createdAt

\* C14: ephemeral variant, no record named "general".  With s1 and s2
\* joined to "general", a chatMessage of s1 for it is not dropped for want
\* of a room record; what a post delivers, it delivers at most once to a
\* session; and an open connection that joined nothing has received
\* nothing.
C14_EphemeralLobbyScenario ==
    /\ [][\A h \in 1..MaxOps :
            (variant = "ephemeral" /\ rooms = {}
                /\ "general" \in joined["s1"] \cap joined["s2"]
                /\ ChatArrives(h, "s1", "general")) =>
                    ops'[h].outcome # "no-room"]_vars
    /\ [](variant = "ephemeral" =>
            \A s \in Sessions :
                /\ \A h \in ChatOps : Cardinality(InboxPos(s, h)) <= 1
                /\ (s \in live /\ joined[s] = {}) => inbox[s] = <<>>)

\* C15: no joinRoom and no post is processed for a connection without a
\* valid token: such a connection is in no socket room and no post of it
\* has been taken up.
C15_NoEventWithoutAuthentication ==
    \A s \in Sessions : UserOf(s) = NoUser =>
        /\ joined[s] = {}
        /\ \A h \in 1..MaxOps : ops[h].sess # s

\* Handler h issues its broadcast in this step.
Broadcasts(h) ==
    /\ ops[h].kind = "chat"
    /\ ops[h].pc = "emit"
    /\ ops'[h].pc = "done"

CanResume(h) ==
    /\ ops[h].pc = "save" => ENABLED (ChatSave(h) \/ SendSave(h))
    /\ ops[h].pc = "lookup" => ENABLED ChatLookup(h)
    /\ ops[h].pc = "send" => ENABLED ChatSendMail(h)
    /\ ops[h].pc = "emit" => ENABLED (ChatEmit(h) \/ SendEmit(h))

\* C19: a disconnect cancels nothing: the step in which a connection
\* closes leaves every handler, the log and every inbox as they are, and a
\* suspended chatMessage handler of a closed connection resumes like any
\* other, up to its save and its broadcast.
C19_DisconnectCancelsNoPost ==
    /\ [][live' # live =>
            ops' = ops /\ messages' = messages /\ inbox' = inbox]_vars
    /\ [](\A h \in ChatOps : ops[h].sess \notin live => CanResume(h))

\* C19 witness: the connection of a post closed while the handler was
\* suspended; the message has been appended since, the handler is about to
\* broadcast it and another session is in the room.
C19_Witness ==
    \E h \in ChatOps :
        /\ ops[h].sess \notin live
        /\ ops[h].pc = "emit"
        /\ LogPos(h) # {}
        /\ \E s \in Sessions : s # ops[h].sess /\ ops[h].key \in joined[s]

\* Handler h removes a room record in this step.
Deletes(h) ==
    /\ ops[h].kind = "delete"
    /\ ops[h].pc = "delete"
    /\ ops'[h].pc = "done"

\* C21: the step that deletes a room changes the Room collection only:
\* the message log is after it what it was before it, the messages of the
\* deleted room included.
C21_DeleteRetainsMessages ==
    [][\A h \in 1..MaxOps : Deletes(h) =>
          /\ messages' = messages
          /\ \A r \in rooms' : r \in rooms]_vars

\* C21 witness: a post to a room was taken up, a DELETE of the room that
\* arrived after it has removed the record, and the message of the post is
\* in the log.
C21_Witness ==
    \E h \in ChatOps : \E d \in 1..MaxOps :
        /\ h < d
        /\ ops[d].kind = "delete"
        /\ ops[d].outcome = "Room deleted"
        /\ LogPos(h) # {}
        /\ \A r \in rooms : r.id # RoomOfOp(h)

\* The user, a registered one, is not in the room of the logged message of
\* handler h: not listed in its record (persistent); no connection of the
\* user has ever joined the socket room (ephemeral).
Outsider(h, u) ==
    /\ u # NoUser
    /\ IF variant = "persistent"
       THEN \E r \in rooms : r.id = RoomOfOp(h) /\ ~Includes(r, u)
       ELSE \A s \in Sessions :
                UserOf(s) = u => (s \in live /\ ops[h].key \notin joined[s])

\* The users the mentions of the logged message of handler h resolve to.
MentionedBy(h) ==
    LET text == messages[CHOOSE i \in LogPos(h) : TRUE].text
    IN {FindUser(variant, Slice1(m)) : m \in Range(Mentions(variant, text))}

\* C23: a notification is sent only for a message that is in the log, and
\* once the handler of a logged message has ended, a send has been
\* attempted (delivered or failed) for it if it mentions an outsider.
C23_NotificationsAfterAppendAllAttempted ==
    /\ [][\A h \in ChatOps : ops[h].pc = "send" => LogPos(h) # {}]_vars
    /\ [](\A h \in ChatOps :
            (ops[h].pc = "done" /\ LogPos(h) # {}
                /\ \E u \in MentionedBy(h) : Outsider(h, u)) =>
                    (MailsOf(h) # {} \/ ops[h].mailErr))

\* The identity that the token of the connection of handler h binds.
Sender(h) == UserOf(ops[h].sess)

\* C29: the author of every logged message and of every event in an
\* inbox, posted on a connection that presented a valid token, is the
\* identity that token binds.
C29_AuthorIsAuthenticatedIdentity ==
    /\ \A i \in 1..Len(messages) :
           Sender(messages[i].op) \in {NoUser, messages[i].user}
    /\ \A s \in Sessions : \A i \in 1..Len(inbox[s]) :
           Sender(inbox[s][i].op) \in {NoUser, inbox[s][i].user}

\* C30: of two posts of one session to one room, the one sent first is
\* appended first and is broadcast first.
C30_PerSenderFifo ==
    \A a, b \in ChatOps :
        (a < b /\ ops[a].sess = ops[b].sess /\ ops[a].key = ops[b].key) =>
            /\ \A x \in LogPos(a), y \in LogPos(b) : x < y
            /\ \A s \in Sessions :
                   \A x \in InboxPos(s, a), y \in InboxPos(s, b) : x < y

\* C25: persistent variant.  A joinRoom that is answered with a failure
\* changes no set of joined rooms and no inbox; a session enters a socket
\* room only in a step that answers it "success"; and an open connection
\* that is in no socket room has received nothing.
C25_FailedJoinHasNoEffect ==
    /\ [][variant = "persistent" => \A s \in Sessions :
            /\ (ack'[s] # ack[s] /\ ack'[s].result # "success") =>
                   joined' = joined /\ inbox' = inbox
            /\ (joined'[s] # joined[s] /\ s \in live') =>
                   ack'[s].result = "success"]_vars
    /\ [](variant = "persistent" => \A s \in Sessions :
            (s \in live /\ joined[s] = {}) => inbox[s] = <<>>)

\* C25 witness: bob's connection s2 was refused the join; the last request
\* received, a post to that room, has been broadcast to the joined session
\* s1, and s2 holds nothing.
C25_Witness ==
    /\ variant = "persistent"
    /\ ack["s2"].result = "You are not a member of this room"
    /\ "s2" \in live /\ joined["s2"] = {} /\ inbox["s2"] = <<>>
    /\ \E h \in ChatOps :
           /\ h = nops
           /\ ops[h].key = ack["s2"].key
           /\ ops[h].outcome = "sent"
           /\ InboxPos("s1", h) # {}

\* C26: every step leaves the log as it is or puts one record behind it:
\* the records already there keep their places, authors, texts and
\* creation times.
C26_LogIsAppendOnly ==
    [][/\ Len(messages') \in {Len(messages), Len(messages) + 1}
       /\ SubSeq(messages', 1, Len(messages)) = messages]_vars

\* C26 witness: two messages were appended one after the other and the
\* room was deleted by a DELETE request: the log holds both.
C26_Witness ==
    /\ Len(messages) = 2
    /\ \E d \in 1..MaxOps : ops[d].outcome = "Room deleted"

\* C27: no record of the log and no event of an inbox has an empty text; a
\* post with an empty text that has reached its save goes no further; and
\* a post that failed the validation is in no log, inbox or mail.
C27_NoEmptyText ==
    /\ \A i \in 1..Len(messages) : messages[i].text # <<>>
    /\ \A s \in Sessions : \A i \in 1..Len(inbox[s]) : inbox[s][i].text # <<>>
    /\ \A h \in ChatOps :
           /\ (ops[h].text = <<>> /\ ops[h].pc # "done") => ops[h].pc = "save"
           /\ ops[h].outcome = "invalid" =>
                  /\ LogPos(h) = {} /\ MailsOf(h) = {}
                  /\ \A s \in Sessions : InboxPos(s, h) = {}

\* C27 witness: a post with an empty text ended at the validation of its
\* save, while a session was joined to its room.
C27_Witness ==
    \E h \in ChatOps :
        /\ ops[h].outcome = "invalid"
        /\ \E s \in Sessions : ops[h].key \in joined[s]

\* C24: persistent variant.  Once amy's post "hello @bob" to a room of
\* hers that does not list bob has been appended and its handler has
\* ended with the broadcast, exactly one notification has been dispatched
\* to bob for it: one mail delivered, or one send that failed.
C24_PersistentMentionScenario ==
    \A h \in ChatOps :
        (variant = "persistent"
            /\ ops[h].user = "amy"
            /\ ops[h].outcome = "sent"
            /\ LogPos(h) # {}
            /\ messages[CHOOSE i \in LogPos(h) : TRUE].text = <<"hello", "@bob">>
            /\ Outsider(h, "bob")) =>
                \/ Cardinality(MailsOf(h)) = 1 /\ ~ops[h].mailErr
                \/ MailsOf(h) = {} /\ ops[h].mailErr

\* A history request of user u for room k arrives in this step as request h.
HistoryArrives(h, u, k) ==
    /\ ops[h].kind = "none"
    /\ ops'[h].kind = "history"
    /\ ops'[h].user = u
    /\ ops'[h].key = k

\* Handler h, a REST join of its user, stores its push in this step.
JoinSaves(h) ==
    /\ ops[h].kind = "join"
    /\ ops[h].pc = "save"
    /\ ops'[h].outcome = "Joined room successfully"

\* Handler h, a room creation, stores its record in this step.
Creates(h) ==
    /\ ops[h].kind = "create"
    /\ ops[h].pc = "save"
    /\ ops'[h].outcome = "Room created"

\* C28: persistent variant.  A new room record lists its creator and
\* nobody else; the member list of a record changes only when a REST join
\* stores its requester behind it; a history request of a user the record
\* does not list is answered 403 at once; and a request that was answered
\* 403 or 404 carries no messages.
C28_MembersOnlyHistory ==
    /\ [][variant = "persistent" =>
            /\ \A q \in rooms' :
                   IF \E r \in rooms : r.id = q.id
                   THEN \A r \in rooms : (r.id = q.id /\ r.members # q.members) =>
                            \E h \in 1..MaxOps :
                                /\ JoinSaves(h)
                                /\ q.members = Append(r.members, ops[h].user)
                   ELSE \E h \in 1..MaxOps :
                            Creates(h) /\ q.members = <<ops[h].user>>
            /\ \A h \in 1..MaxOps : \A u \in Users, k \in Keys :
                   (HistoryArrives(h, u, k) /\
                    \E r \in rooms : r.id = k /\ ~Includes(r, u)) =>
                       /\ ops'[h].pc = "done"
                       /\ ops'[h].outcome = "You are not a member of this room"]_vars
    /\ [](\A h \in 1..MaxOps :
            (ops[h].kind = "history" /\ ops[h].outcome # "Messages") =>
                ops[h].got = <<>>)

\* C28 witness: the room lists amy only; amy's history request returned
\* messages, bob's was answered 403.
C28_Witness ==
    /\ variant = "persistent"
    /\ \E r \in rooms : r.members = <<"amy">>
    /\ \E h \in 1..MaxOps :
           /\ ops[h].kind = "history" /\ ops[h].user = "amy"
           /\ ops[h].got # <<>>
    /\ \E h \in 1..MaxOps :
           /\ ops[h].kind = "history" /\ ops[h].user = "bob"
           /\ ops[h].outcome = "You are not a member of this room"

\* The chatMessage handler h is suspended at one of its awaits.
InFlight(h) == ops[h].pc \in {"save", "lookup", "send", "emit"}

\* C22: posts to different rooms do not wait for each other: whatever
\* await the handler of a post to one room is suspended at, the due step
\* of a suspended handler of a post to another room can be taken.
C22_RoomsAreIndependent ==
    \A a, b \in ChatOps :
        (ops[a].key # ops[b].key /\ InFlight(a) /\ InFlight(b)) => CanResume(b)

\* C22 witness: a post to room id1 is suspended in its mention side
\* effect; a post to room id2 that arrived after it has been appended and
\* broadcast.
C22_Witness ==
    \E a, b \in ChatOps :
        /\ a < b
        /\ ops[a].key = IdOf(1) /\ ops[a].pc \in {"lookup", "send"}
        /\ ops[b].key = IdOf(2) /\ ops[b].outcome = "sent"
        /\ LogPos(b) # {}

\* C31: no member list holds a user twice.
C31_MembersHaveNoDuplicates ==
    \A r \in rooms : \A i, j \in 1..Len(r.members) :
        r.members[i] = r.members[j] => i = j

\* C32: ephemeral variant, s2 joined "general" while record id1 answered to
\* the name.  As long as every request received since was a post or a REST
\* request (no joinRoom, so s2 has not joined again), every event in the
\* inbox of s2 is a message of record id1.
C32_BroadcastsOnlyOfJoinedRecord ==
    (\A n \in 1..nops : ops[n].kind # "none") =>
        \A i \in 1..Len(inbox["s2"]) :
            RoomOfOp(inbox["s2"][i].op) = IdOf(1)

====
